---- MODULE Spec2Model ----
(***************************************************************************)
(* Model of make_ola_high_low_ck.py: the conversion of a schedule of       *)
(* historical fixed-offset frame kernels (FKs) into one CK, and the test   *)
(* of that CK against the FKs.                                             *)
(*                                                                         *)
(* The state is the file system (the output CK), the SPICE kernel store    *)
(* (loaded kernels, open CK handles), and the local variables and position *)
(* of main, create_ck and test_ck.  One action models each group of        *)
(* consecutive source lines between two points where a SPICE call can      *)
(* raise, or one pass of a loop.                                           *)
(*                                                                         *)
(* Numbers.  Ephemeris times (ET) and SCLK ticks are floats in the code    *)
(* and integers here.  The open-ended threshold -1e30 of line 131 is the   *)
(* model value -30, and the stop values -1e31, -1e40 are -31, -40 (minus   *)
(* the decimal exponent: the order of the values is kept).  All other ETs  *)
(* are small integers of seconds.                                          *)
(***************************************************************************)
EXTENDS Integers, Sequences, FiniteSets, TLC

(***************************************************************************)
(* Bounds of the model.                                                    *)
(***************************************************************************)
\* longest schedule (number of historical FKs / stop times) explored
MaxWin == 2
\* number of times the script is run against the same file system
MaxRuns == 2

(***************************************************************************)
(* Sequence helpers (Python list operations).                              *)
(***************************************************************************)
SeqsUpTo(S, n) == UNION {[1..k -> S] : k \in 0..n}

\* the bug of a reversal that leaves the list as it is
NotReversed(s) == s

\* list.reverse()
Reverse(s) == [i \in 1..Len(s) |-> s[Len(s) + 1 - i]]

\* list.pop(): the element returned
PopValue(s) == s[Len(s)]

\* list.pop(): the list left behind
PopRest(s) == SubSeq(s, 1, Len(s) - 1)

(***************************************************************************)
(* The world the script runs in: the kernels named on the command line,    *)
(* the kernel pool they define, the on-board clock, the historical FKs.    *)
(***************************************************************************)
\* kernel lists that can be passed: one that loads, one that does not exist
KernelLists == {<<"base.tm">>, <<"missing.tm">>}

Furnishable(kernel) == kernel # "missing.tm"

\* FRAME_<NAME> of the new FK: frame name -> frame id; no FRAME_X
PoolFrameId == ("A" :> -1) @@ ("B" :> -2) @@ ("C" :> -3) @@ ("D" :> -4)

\* CK_<id>_SCLK of the new FK: frame id -> SCLK id; none for frame D (-4)
PoolCkSclk == (-1 :> -64) @@ (-2 :> -64) @@ (-3 :> -64)

\* the on-board clock of the SCLK kernel: ET of tick 0, ticks per second,
\* SCLK_PARTITION_START_64 and SCLK_PARTITION_END_64 (two partitions, the
\* second continuing the count of the first)
Clock == [startET |-> -4, ticksPerSec |-> 100,
          partitionStart |-> <<0, 500>>, partitionEnd |-> <<500, 4000>>]

\* the encoded SCLK range of the clock: the ticks of all partitions
RECURSIVE TicksThrough(_)
TicksThrough(n) ==
  IF n = 0 THEN 0
  ELSE TicksThrough(n - 1) + Clock.partitionEnd[n] - Clock.partitionStart[n]

MaxTick == TicksThrough(Len(Clock.partitionEnd))

\* the historical FKs: TKFRAME_<id>_RELATIVE and the fixed rotation, per
\* frame id; old2.tf has no definition of frame C (-3); gone.tf is not there
HistFiles == {"old1.tf", "old2.tf", "gone.tf"}

FkDef ==
  LET old1 == ((-1) :> [relative |-> "SC",   mtx |-> "R1A"]) @@
              ((-2) :> [relative |-> "SC",   mtx |-> "R1B"]) @@
              ((-3) :> [relative |-> "SC",   mtx |-> "R1C"])
      old2 == ((-1) :> [relative |-> "SC",   mtx |-> "R2A"]) @@
              ((-2) :> [relative |-> "DECK", mtx |-> "R2B"])
  IN  ("old1.tf" :> old1) @@ ("old2.tf" :> old2)

FkLoads(f) == f \in DOMAIN FkDef

\* stop times: two sentinels (-1e40, -1e31), the threshold itself (-1e30),
\* and two epochs T1 < T2 inside the clock's range
T1 == -1
T2 == 5
StopTimes == {-40, -31, -30, T1, T2}

\* FRAMES_TO_CONVERT lists
FrameLists == {<<>>, <<"A">>, <<"A", "B">>, <<"B", "C">>, <<"X">>, <<"D">>}


(***************************************************************************)
(* SPICE calls, as far as the script depends on them.                      *)
(***************************************************************************)
\* sp.sce2t raises for an ET outside the range the SCLK kernel covers
Sce2tOk(et) ==
  /\ et >= Clock.startET
  /\ (et - Clock.startET) * Clock.ticksPerSec <= MaxTick

\* sp.sce2t(sclk_id, et): ET -> encoded SCLK ticks
Sce2t(et) == (et - Clock.startET) * Clock.ticksPerSec

\* sp.sct2e(sclk_id, ticks): encoded SCLK ticks -> ET
Sct2e(ticks) == Clock.startET + (ticks \div Clock.ticksPerSec)

\* sp.m2q(mtx): rotation matrix -> quaternion (abstract values)
M2q(mtx) == <<"quat", mtx>>

\* line 131: the stop ET below which a window is open-ended (-1e30)
OpenEndedThreshold == -30

\* the bug of taking the threshold itself for the sentinel
IsOpenEndedAtThreshold(et) == et <= OpenEndedThreshold

\* line 131: is this stop ET the open-ended sentinel?
IsOpenEnded(et) == et < OpenEndedThreshold

\* line 133: gdpool('SCLK_PARTITION_END_<n>',0,999)[-1]
PartitionEndTick == Clock.partitionEnd[Len(Clock.partitionEnd)]

\* line 124: seconds per tick, kept as the pair <<seconds, ticks>>
Rate == <<Sct2e(1000) - Sct2e(0), 1000>>

\* lines 110-111: the start tick of a window; last is <<>> (None) or <<et>>
BegtimOk(last) == last = <<>> \/ Sce2tOk(last[1])

\* the bug of starting every window at tick 0
BegTimAlwaysZero(last) == 0

BegTim(last) == IF last = <<>> THEN 0 ELSE Sce2t(last[1])

\* lines 131-136: the stop tick of a window
EndtimOk(stop) == IsOpenEnded(stop) \/ Sce2tOk(stop)

\* the bug of ending every window at the end of the clock
EndTimAlwaysPartitionEnd(stop) == PartitionEndTick

EndTim(stop) == IF IsOpenEnded(stop) THEN PartitionEndTick ELSE Sce2t(stop)

\* the bug of naming the frame itself as the segment's reference frame
SegmentRelativeToItself(b, e, id, rel, f, frm, q) ==
  [begtim |-> b, endtim |-> e, inst |-> id, ref |-> frm,
   segid |-> <<f, frm>>, quat |-> q, rate |-> Rate]

\* lines 157-162: the segment handed to sp.ckw02
Segment(b, e, id, rel, f, frm, q) ==
  [begtim |-> b, endtim |-> e, inst |-> id, ref |-> rel,
   segid |-> <<f, frm>>, quat |-> q, rate |-> Rate]

\* lines 157-162: sp.ckw02 is handed the one interval [begtim, endtim] and
\* raises SPICE(DEGENERATEINTERVAL) unless its stop is after its start
Ckw02Ok(b, e) == b < e

\* a CK somebody else wrote, found at the output path before the first run
ForeignCk == <<[begtim |-> 0, endtim |-> 1, inst |-> 0, ref |-> "J2000",
                segid |-> <<"other", "other">>, quat |-> <<"quat", "I">>,
                rate |-> <<1, 1>>]>>

\* the bug of an unload that unloads nothing
UnloadNothing(ld, f) == ld

\* sp.unload(fk): drop the most recently loaded copy of the file
Unload(ld, f) ==
  LET at == {i \in 1..Len(ld) : ld[i] = f}
  IN  IF at = {} THEN ld
      ELSE LET k == CHOOSE i \in at : \A j \in at : j <= i
           IN  SubSeq(ld, 1, k - 1) \o SubSeq(ld, k + 1, Len(ld))

(***************************************************************************)
(* test_ck: dicts, sample epochs, orientation queries.                     *)
(*                                                                         *)
(* A dict is the sequence of its items [key, val] in insertion order (the  *)
(* order in which Python iterates it).  The sample ETs are kept in thirds  *)
(* of a second, so that (stop_et-et_lo)/3. is exact: a sample e stands for *)
(* the ET e/3.                                                             *)
(***************************************************************************)
\* d[k] = v
DictSet(d, k, v) ==
  IF \E i \in 1..Len(d) : d[i].key = k
    THEN [i \in 1..Len(d) |->
            IF d[i].key = k THEN [key |-> k, val |-> v] ELSE d[i]]
    ELSE Append(d, [key |-> k, val |-> v])

\* d[k]
DictGet(d, k) == d[CHOOSE i \in 1..Len(d) : d[i].key = k].val

\* the output CK named by OUTPUT_CK
OutputCk == "out.bc"

\* the bug of testing without the output CK
TestKernelsWithoutCk(kernels, output_ck) == kernels

\* lines 179, 238: kernels+[output_ck]
TestKernels(kernels, output_ck) == kernels \o <<output_ck>>

\* lines 206-207: the start ET of a window; last is <<>> (None) or <<et>>
EtLo(last) == IF last = <<>> THEN Sct2e(0) ELSE last[1]

\* line 219: 10. seconds
LoOffset == 10

\* line 220: 1e6 seconds, on the scale of the model's clock
HiOffset == 20

Min(a, b) == IF a < b THEN a ELSE b

\* line 222: et_delta = min([10.,(stop_et-et_lo)/3.]), in thirds
EtDelta(lo, stop) == Min(3 * LoOffset, stop - lo)

\* the bug of sampling the window's own endpoints
EtTestAtEndpoints(lo, stop) ==
  IF IsOpenEnded(stop) THEN <<3 * lo, 3 * (lo + HiOffset)>>
  ELSE <<3 * lo, 3 * stop>>

\* lines 218-224: <<et_test_lo, et_test_hi>>, in thirds
EtTest(lo, stop) ==
  IF IsOpenEnded(stop) THEN <<3 * (lo + LoOffset), 3 * (lo + HiOffset)>>
  ELSE <<3 * lo + EtDelta(lo, stop), 3 * stop - EtDelta(lo, stop)>>

\* lines 241-248, 264-268: the queries under one FK of dt, frame by frame,
\* et_test_lo before et_test_hi
QueriesOf(f, d) ==
  [q \in 1..(2 * Len(d)) |->
     LET e == d[(q + 1) \div 2]
     IN  [fk |-> f, reffrm |-> e.key,
          relative_reffrm |-> e.val.relative_reffrm,
          et |-> IF q % 2 = 1 THEN e.val.et_test_lo ELSE e.val.et_test_hi]]

\* lines 241-248: all queries of pass 1, FK by FK
RECURSIVE AllQueries(_)
AllQueries(d) ==
  IF d = <<>> THEN <<>>
  ELSE AllQueries(SubSeq(d, 1, Len(d) - 1))
         \o QueriesOf(d[Len(d)].key, d[Len(d)].val)

\* three times the tick of a sample ET
Tick3(e) == (e - 3 * Clock.startET) * Clock.ticksPerSec

\* the bug of a lookup that takes any segment of the frame, whatever its
\* ticks
CkCoverAnyTime(segs, id, e) == {k \in 1..Len(segs) : segs[k].inst = id}

\* the segments of the CK that hold pointing of frame id at sample ET e
CkCover(segs, id, e) ==
  {k \in 1..Len(segs) : /\ segs[k].inst = id
                        /\ 3 * segs[k].begtim <= Tick3(e)
                        /\ Tick3(e) <= 3 * segs[k].endtim}

\* the segment sp.pxform reads: of those that cover, the last one written
CkSegment(segs, id, e) ==
  segs[CHOOSE k \in CkCover(segs, id, e) :
         \A m \in CkCover(segs, id, e) : m <= k]

\* line 251: sp.pxform through the CK raises unless the CK is loaded, the
\* ET is on the clock and a segment of the frame covers it
CkPxformOk(ld, segs, reffrm, e) ==
  /\ \E i \in 1..Len(ld) : ld[i] = OutputCk
  /\ Tick3(e) >= 0 /\ Tick3(e) <= 3 * MaxTick
  /\ CkCover(segs, PoolFrameId[reffrm], e) # {}

\* sp.q2m: quaternion -> rotation matrix (abstract values)
Q2m(q) == q[2]

\* line 251: sp.pxform(relative_reffrm,reffrm,et) through the CK: the
\* rotation of the segment, chained to relative_reffrm when the segment
\* names another reference frame
CkPxform(segs, rel, reffrm, e) ==
  LET seg == CkSegment(segs, PoolFrameId[reffrm], e)
  IN  IF seg.ref = rel THEN Q2m(seg.quat)
      ELSE <<"chain", rel, seg.ref, Q2m(seg.quat)>>

\* line 271: sp.pxform(relative_reffrm,reffrm,et) with the historical FK
\* alone: its fixed rotation
FkPxform(f, reffrm) == FkDef[f][PoolFrameId[reffrm]].mtx

\* line 271: round(sp.vnorm(q1-q2),16): 0 for equal rotations, else 1 for
\* a nonzero norm
QuatError(q1, q2) == IF q1 = q2 THEN 0 ELSE 1

\* line 279: '{:015.4f}'.format(et): the ET rounded to 1e-4 s, in units of
\* 1e-4 s
FormatEt(e) == (20000 * e + 3) \div 6

\* a CK an earlier run of the script wrote for frames A and B from the
\* schedule FKS = ('old1.tf'), STOP_ETS = (-1d32)
EarlierCk ==
  <<Segment(0, PartitionEndTick, -1, "SC", "old1.tf", "A", M2q("R1A")),
    Segment(0, PartitionEndTick, -2, "SC", "old1.tf", "B", M2q("R1B"))>>

(***************************************************************************)
(* State.                                                                  *)
(***************************************************************************)
VARIABLES
  cfg,             \* what the run is given: entry point, kernels, frames,
                   \* historical FKs and stop times as declared
  run,             \* number of runs started so far
  pc,              \* position in main / create_ck / test_ck
  result,          \* "none", "running", "ok" (returned), "error" (raised)
  ckExists,        \* file system: is there a file at the output path
  ckSegs,          \* file system: the segments of that file
  ckAtEntry,       \* <<ckExists, ckSegs>> when create_ck was entered
  loaded,          \* kernel store: the loaded kernels, in load order
  handleOpen,      \* kernel store: is the CK handle open for writing
  main_fks,        \* main: fks
  main_stop_ets,   \* main: stop_ets
  fks,             \* create_ck, test_ck: fks (the copy it pops)
  stop_ets,        \* create_ck, test_ck: stop_ets (the copy it pops)
  last_et,         \* create_ck, test_ck: <<>> for None, else <<et>>
  ck_handle,       \* create_ck: "None" or "handle"
  fk,              \* create_ck, test_ck: the window's historical FK
  stop_et,         \* create_ck, test_ck: the window's stop ET
  fi,              \* create_ck, test_ck: index of reffrm in
                   \*          frames_to_convert
  frameVars,       \* create_ck: reffrm_id, sclk_id, begtim, endtim,
                   \*            relative_reffrm, mtx, quat of this pass
  log,             \* the calls made in this run, in order
  argv,            \* main: which of --create, --test are in argv_arg
  dt,              \* test_ck: dt, per FK and frame the relative frame, the
                   \*          two sample ETs and the CK-based quaternions
  results,         \* test_ck: the dicts printed, in order
  ti,              \* test_ck: pass 1: index of the query; pass 2: index
                   \*          of fk in dt
  tj               \* test_ck: pass 2: index of the query under dt[fk]

vars == <<cfg, run, pc, result, ckExists, ckSegs, ckAtEntry, loaded,
          handleOpen, main_fks, main_stop_ets, fks, stop_ets, last_et,
          ck_handle, fk, stop_et, fi, frameVars, log, argv, dt, results,
          ti, tj>>

disk == <<ckExists, ckSegs>>
mainVars == <<main_fks, main_stop_ets>>
loopVars == <<fks, stop_ets, last_et, fk, stop_et, fi>>
testVars == <<dt, results, ti, tj>>

NoFrameVars == [reffrm_id |-> 0, sclk_id |-> 0, begtim |-> 0, endtim |-> 0,
                relative_reffrm |-> "", mtx |-> "", quat |-> <<>>]

\* one entry of the log
Ev(op, file, frame, et, tick) ==
  [op |-> op, file |-> file, frame |-> frame, et |-> et, tick |-> tick]

\* the bug of a check that never refuses
NeverRefuses(exists) == FALSE

\* line 88: the assertion fails when sp.exists finds the output CK
CannotOverwrite(exists) == exists

\* the bugs of a test for None that always, or never, succeeds
IsNoneAlways(h) == TRUE

IsNoneNever(h) == FALSE

\* lines 154, 168: ck_handle is None
IsNone(h) == h = "None"

\* an exception leaves create_ck / test_ck / main
Raise == pc' = "exit" /\ result' = "error"

\* the bug of a main that checks neither list
AcceptsAnySchedule(f, s) == TRUE

\* lines 324-330: assert fks; assert len(fks)==len(stop_ets); an absent
\* STOP_ETS makes sp.gdpool raise before the second assertion
ScheduleAccepted(f, s) == f # <<>> /\ s # <<>> /\ Len(f) = Len(s)


(***************************************************************************)
(* Initial states: a configuration, and a file system where the output     *)
(* path is free or already taken.                                          *)
(***************************************************************************)
\* main reads the frames and the schedule from the meta-kernel; a program
\* that imports the module hands them to create_ck itself.  A run whose
\* kernels cannot be loaded ends before it looks at frames or schedule, so
\* one such configuration stands for all of them
Configs ==
  {c \in [entry : {"main", "create_ck"}, kernels : KernelLists,
          frames : FrameLists, fks : SeqsUpTo(HistFiles, MaxWin),
          stops : SeqsUpTo(StopTimes, MaxWin)] :
     c.kernels = <<"missing.tm">> =>
        c.frames = <<>> /\ c.fks = <<>> /\ c.stops = <<>>}

\* the runs of main that start here are given --create alone
Init ==
  /\ cfg \in Configs
  /\ run = 1
  /\ pc = "start"
  /\ result = "none"
  /\ ckExists \in BOOLEAN
  /\ ckSegs = IF ckExists THEN ForeignCk ELSE <<>>
  /\ ckAtEntry = <<FALSE, <<>>>>
  /\ loaded = <<>>
  /\ handleOpen = FALSE
  /\ main_fks = <<>>
  /\ main_stop_ets = <<>>
  /\ fks = <<>>
  /\ stop_ets = <<>>
  /\ last_et = <<>>
  /\ ck_handle = "None"
  /\ fk = ""
  /\ stop_et = 0
  /\ fi = 0
  /\ frameVars = NoFrameVars
  /\ log = <<>>
  /\ argv = [create |-> TRUE, test |-> FALSE]
  /\ dt = <<>>
  /\ results = <<>>
  /\ ti = 0
  /\ tj = 0

(***************************************************************************)
(* main, lines 284-348.                                                    *)
(***************************************************************************)
\* lines 294-340: load the kernels, read and check the configuration,
\* reverse the two lists, clear the kernel store
main ==
  /\ pc = "start"
  /\ cfg.entry = "main"
  /\ IF \E i \in 1..Len(cfg.kernels) : ~Furnishable(cfg.kernels[i])
       THEN /\ Raise
            /\ UNCHANGED <<loaded, mainVars, log>>
     ELSE IF cfg.frames = <<>> \/ ~ScheduleAccepted(cfg.fks, cfg.stops)
       THEN /\ Raise
            /\ loaded' = loaded \o cfg.kernels
            /\ log' = log \o [i \in 1..Len(cfg.kernels) |->
                                Ev("furnsh", cfg.kernels[i], "", <<>>, 0)]
            /\ UNCHANGED mainVars
     ELSE /\ main_fks' = Reverse(cfg.fks)
          /\ main_stop_ets' = Reverse(cfg.stops)
          /\ loaded' = <<>>
          /\ log' = log \o [i \in 1..Len(cfg.kernels) |->
                              Ev("furnsh", cfg.kernels[i], "", <<>>, 0)]
                       \o <<Ev("kclear", "", "", <<>>, 0)>>
          /\ pc' = "main_create"
          /\ result' = "running"
  /\ UNCHANGED <<cfg, argv, testVars, run, disk, ckAtEntry, handleOpen,
                 loopVars, ck_handle, frameVars>>

\* lines 342-344: with --create, create_ck is handed copies of the two
\* lists
main_create ==
  /\ pc = "main_create"
  /\ IF argv.create
       THEN /\ fks' = main_fks
            /\ stop_ets' = main_stop_ets
            /\ pc' = "create_ck"
       ELSE /\ pc' = "main_test"
            /\ UNCHANGED <<fks, stop_ets>>
  /\ UNCHANGED <<cfg, argv, testVars, run, result, disk, ckAtEntry, loaded,
                 handleOpen, mainVars, last_et, ck_handle, fk, stop_et, fi,
                 frameVars, log>>

\* create_ck called by a program that imports the module
call_create_ck ==
  /\ pc = "start"
  /\ cfg.entry = "create_ck"
  /\ fks' = cfg.fks
  /\ stop_ets' = cfg.stops
  /\ pc' = "create_ck"
  /\ result' = "running"
  /\ UNCHANGED <<cfg, argv, testVars, run, disk, ckAtEntry, loaded,
                 handleOpen, mainVars, last_et, ck_handle, fk, stop_et, fi,
                 frameVars, log>>

(***************************************************************************)
(* create_ck, lines 75-168.                                                *)
(***************************************************************************)
\* lines 81-91: load the kernels, refuse an existing output CK
create_ck ==
  /\ pc = "create_ck"
  /\ ckAtEntry' = <<ckExists, ckSegs>>
  /\ IF \E i \in 1..Len(cfg.kernels) : ~Furnishable(cfg.kernels[i])
       THEN /\ Raise
            /\ log' = Append(log, Ev("create_ck", "", "", <<>>, 0))
            /\ UNCHANGED <<loaded, last_et, ck_handle>>
     ELSE /\ loaded' = loaded \o cfg.kernels
          /\ log' = log \o <<Ev("create_ck", "", "", <<>>, 0)>>
                       \o [i \in 1..Len(cfg.kernels) |->
                              Ev("furnsh", cfg.kernels[i], "", <<>>, 0)]
                       \o <<Ev("exists", "", "", <<>>, 0)>>
          /\ last_et' = <<>>
          /\ IF CannotOverwrite(ckExists)
               THEN Raise /\ UNCHANGED ck_handle
               ELSE /\ ck_handle' = "None"
                    /\ pc' = "while"
                    /\ UNCHANGED result
  /\ UNCHANGED <<cfg, argv, testVars, run, disk, handleOpen, mainVars, fks,
                 stop_ets, fk, stop_et, fi, frameVars>>

\* lines 94-98: the next window: pop the FK and its stop ET
while_fks ==
  /\ pc = "while"
  /\ fks # <<>>
  /\ IF stop_ets = <<>>
       THEN /\ Raise
            /\ fk' = PopValue(fks)
            /\ fks' = PopRest(fks)
            /\ UNCHANGED <<stop_ets, stop_et, fi, log>>
       ELSE /\ fk' = PopValue(fks)
            /\ fks' = PopRest(fks)
            /\ stop_et' = PopValue(stop_ets)
            /\ stop_ets' = PopRest(stop_ets)
            /\ fi' = 1
            /\ log' = Append(log, Ev("pop", PopValue(fks), "",
                                     <<PopValue(stop_ets)>>, 0))
            /\ pc' = "for"
            /\ UNCHANGED result
  /\ UNCHANGED <<cfg, argv, testVars, run, disk, ckAtEntry, loaded,
                 handleOpen, mainVars, last_et, ck_handle, frameVars>>

\* lines 101-111: the next frame of the window: its ids and the start tick
for_reffrm ==
  /\ pc = "for"
  /\ fi <= Len(cfg.frames)
  /\ LET reffrm == cfg.frames[fi]
         id == PoolFrameId[reffrm]
         conv == IF last_et = <<>> THEN <<>>
                 ELSE <<Ev("sce2t", "", reffrm, last_et, 0)>>
     IN  IF reffrm \notin DOMAIN PoolFrameId
           THEN Raise /\ UNCHANGED <<frameVars, log>>
         ELSE IF id \notin DOMAIN PoolCkSclk
           THEN Raise /\ UNCHANGED <<frameVars, log>>
         ELSE IF ~BegtimOk(last_et)
           THEN /\ Raise
                /\ log' = log \o conv
                /\ UNCHANGED frameVars
         ELSE /\ frameVars' = [frameVars EXCEPT !.reffrm_id = id,
                                 !.sclk_id = PoolCkSclk[id],
                                 !.begtim = BegTim(last_et)]
              /\ log' = log \o conv
                          \o <<Ev("begtim", fk, reffrm, last_et,
                                  BegTim(last_et))>>
              /\ pc' = "furnsh_fk"
              /\ UNCHANGED result
  /\ UNCHANGED <<cfg, argv, testVars, run, disk, ckAtEntry, loaded,
                 handleOpen, mainVars, loopVars, ck_handle>>

\* line 115: load the historical FK
furnsh_fk ==
  /\ pc = "furnsh_fk"
  /\ IF FkLoads(fk)
       THEN /\ loaded' = Append(loaded, fk)
            /\ log' = Append(log, Ev("furnsh", fk, "", <<>>, 0))
            /\ pc' = "read_fk"
            /\ UNCHANGED result
       ELSE Raise /\ UNCHANGED <<loaded, log>>
  /\ UNCHANGED <<cfg, argv, testVars, run, disk, ckAtEntry, handleOpen,
                 mainVars, loopVars, ck_handle, frameVars>>

\* lines 116-117: the relative frame and the fixed rotation of the FK
read_fk ==
  /\ pc = "read_fk"
  /\ IF frameVars.reffrm_id \in DOMAIN FkDef[fk]
       THEN /\ frameVars' =
                 [frameVars EXCEPT
                    !.relative_reffrm = FkDef[fk][frameVars.reffrm_id].relative,
                    !.mtx = FkDef[fk][frameVars.reffrm_id].mtx]
            /\ pc' = "unload_fk"
            /\ UNCHANGED result
       ELSE Raise /\ UNCHANGED frameVars
  /\ UNCHANGED <<cfg, argv, testVars, run, disk, ckAtEntry, loaded,
                 handleOpen, mainVars, loopVars, ck_handle, log>>

\* lines 118-124: unload the historical FK; quaternion and tick rate
unload_fk ==
  /\ pc = "unload_fk"
  /\ loaded' = Unload(loaded, fk)
  /\ frameVars' = [frameVars EXCEPT !.quat = M2q(frameVars.mtx)]
  /\ log' = Append(log, Ev("unload", fk, "", <<>>, 0))
  /\ pc' = "endtim"
  /\ UNCHANGED <<cfg, argv, testVars, run, result, disk, ckAtEntry,
                 handleOpen, mainVars, loopVars, ck_handle>>

\* lines 130-136: the stop tick of the window
set_endtim ==
  /\ pc = "endtim"
  /\ LET reffrm == cfg.frames[fi]
         conv == IF IsOpenEnded(stop_et) THEN <<>>
                 ELSE <<Ev("sce2t", "", reffrm, <<stop_et>>, 0)>>
     IN  IF EndtimOk(stop_et)
           THEN /\ frameVars' = [frameVars EXCEPT !.endtim = EndTim(stop_et)]
                /\ log' = log \o conv
                            \o <<Ev("endtim", fk, reffrm, <<stop_et>>,
                                    EndTim(stop_et))>>
                /\ pc' = "ckopn"
                /\ UNCHANGED result
           ELSE /\ Raise
                /\ log' = log \o conv
                /\ UNCHANGED frameVars
  /\ UNCHANGED <<cfg, argv, testVars, run, disk, ckAtEntry, loaded,
                 handleOpen, mainVars, loopVars, ck_handle>>

\* lines 153-154: open the output CK, once
ckopn ==
  /\ pc = "ckopn"
  /\ IF IsNone(ck_handle)
       THEN \E ok \in BOOLEAN :
              IF ok
                THEN /\ ck_handle' = "handle"
                     /\ handleOpen' = TRUE
                     /\ ckExists' = TRUE
                     /\ ckSegs' = <<>>
                     /\ log' = Append(log, Ev("ckopn", "", "", <<>>, 0))
                     /\ pc' = "ckw02"
                     /\ UNCHANGED result
                ELSE /\ Raise
                     /\ UNCHANGED <<ck_handle, handleOpen, disk, log>>
       ELSE /\ pc' = "ckw02"
            /\ UNCHANGED <<ck_handle, handleOpen, disk, log, result>>
  /\ UNCHANGED <<cfg, argv, testVars, run, ckAtEntry, loaded, mainVars,
                 loopVars, frameVars>>

\* lines 156-162: write one segment
ckw02 ==
  /\ pc = "ckw02"
  /\ \E ok \in BOOLEAN :
       IF ok /\ handleOpen /\ Ckw02Ok(frameVars.begtim, frameVars.endtim)
         THEN /\ ckSegs' = Append(ckSegs,
                   Segment(frameVars.begtim, frameVars.endtim,
                           frameVars.reffrm_id, frameVars.relative_reffrm,
                           fk, cfg.frames[fi], frameVars.quat))
              /\ log' = Append(log, Ev("ckw02", fk, cfg.frames[fi], <<>>, 0))
              /\ fi' = fi + 1
              /\ pc' = "for"
              /\ UNCHANGED result
         ELSE Raise /\ UNCHANGED <<ckSegs, log, fi>>
  /\ UNCHANGED <<cfg, argv, testVars, run, ckExists, ckAtEntry, loaded,
                 handleOpen, mainVars, fks, stop_ets, last_et, fk, stop_et,
                 ck_handle, frameVars>>

\* lines 164-165: the window is done: keep its stop ET for the next one
end_window ==
  /\ pc = "for"
  /\ fi > Len(cfg.frames)
  /\ last_et' = <<stop_et>>
  /\ pc' = "while"
  /\ UNCHANGED <<cfg, argv, testVars, run, result, disk, ckAtEntry, loaded,
                 handleOpen, mainVars, fks, stop_ets, fk, stop_et, fi,
                 ck_handle, frameVars, log>>

\* lines 167-168: close the CK if it was opened, and return (to main, line
\* 346, or to the importing program)
ckcls ==
  /\ pc = "while"
  /\ fks = <<>>
  /\ IF ~IsNone(ck_handle)
       THEN /\ handleOpen' = FALSE
            /\ log' = Append(log, Ev("ckcls", "", "", <<>>, 0))
       ELSE UNCHANGED <<handleOpen, log>>
  /\ pc' = IF cfg.entry = "main" THEN "main_test" ELSE "exit"
  /\ result' = "ok"
  /\ UNCHANGED <<cfg, argv, testVars, run, disk, ckAtEntry, loaded, mainVars,
                 loopVars, ck_handle, frameVars>>

(***************************************************************************)
(* test_ck, lines 171-280.                                                 *)
(***************************************************************************)
\* the bug of handing test_ck the lists as create_ck left them
ListLeftByCreateCk(mine, left) == left

\* line 348: fks[:], stop_ets[:]: copies of main's lists, whatever has
\* become of the copies create_ck was handed
CopyForTestCk(mine, left) == mine

\* lines 346-348: with --test, test_ck is handed copies of the two lists;
\* without, main returns
main_test ==
  /\ pc = "main_test"
  /\ IF argv.test
       THEN /\ fks' = CopyForTestCk(main_fks, fks)
            /\ stop_ets' = CopyForTestCk(main_stop_ets, stop_ets)
            /\ pc' = "test_ck"
            /\ result' = "running"
       ELSE /\ pc' = "exit"
            /\ result' = "ok"
            /\ UNCHANGED <<fks, stop_ets>>
  /\ UNCHANGED <<cfg, argv, testVars, run, disk, ckAtEntry, loaded,
                 handleOpen, mainVars, last_et, ck_handle, fk, stop_et, fi,
                 frameVars, log>>

\* lines 178-185: load the kernels and the output CK
test_ck ==
  /\ pc = "test_ck"
  /\ IF ckExists
       THEN /\ loaded' = loaded \o TestKernels(cfg.kernels, OutputCk)
            /\ log' = log \o <<Ev("test_ck", "", "", <<>>, 0)>>
                        \o [i \in 1..Len(TestKernels(cfg.kernels,
                                                      OutputCk)) |->
                              Ev("furnsh",
                                 TestKernels(cfg.kernels, OutputCk)[i], "",
                                 <<>>, 0)]
            /\ last_et' = <<>>
            /\ dt' = <<>>
            /\ pc' = "t_while"
            /\ UNCHANGED result
       ELSE /\ Raise
            /\ loaded' = loaded \o cfg.kernels
            /\ log' = Append(log, Ev("test_ck", "", "", <<>>, 0))
            /\ UNCHANGED <<last_et, dt>>
  /\ UNCHANGED <<cfg, argv, run, disk, ckAtEntry, handleOpen, mainVars, fks,
                 stop_ets, ck_handle, fk, stop_et, fi, frameVars, results,
                 ti, tj>>

\* lines 187-194: the next window: pop the FK and its stop ET, start its
\* dict
t_while_fks ==
  /\ pc = "t_while"
  /\ fks # <<>>
  /\ fk' = PopValue(fks)
  /\ fks' = PopRest(fks)
  /\ IF stop_ets = <<>>
       THEN /\ Raise
            /\ UNCHANGED <<stop_ets, stop_et, fi, dt, log>>
       ELSE /\ stop_et' = PopValue(stop_ets)
            /\ stop_ets' = PopRest(stop_ets)
            /\ dt' = DictSet(dt, PopValue(fks), <<>>)
            /\ fi' = 1
            /\ log' = Append(log, Ev("t_pop", PopValue(fks), "",
                                     <<PopValue(stop_ets)>>, 0))
            /\ pc' = "t_for"
            /\ UNCHANGED result
  /\ UNCHANGED <<cfg, argv, run, disk, ckAtEntry, loaded, handleOpen,
                 mainVars, last_et, ck_handle, frameVars, results, ti, tj>>

\* lines 197-228: the next frame of the window: its ids, the relative frame
\* the historical FK declares, the two sample ETs
t_for_reffrm ==
  /\ pc = "t_for"
  /\ fi <= Len(cfg.frames)
  /\ LET reffrm == cfg.frames[fi]
         id == PoolFrameId[reffrm]
         ets == EtTest(EtLo(last_et), stop_et)
     IN  IF reffrm \notin DOMAIN PoolFrameId
           THEN Raise /\ UNCHANGED <<loaded, dt, fi, log>>
         ELSE IF id \notin DOMAIN PoolCkSclk
           THEN Raise /\ UNCHANGED <<loaded, dt, fi, log>>
         ELSE IF ~FkLoads(fk)
           THEN Raise /\ UNCHANGED <<loaded, dt, fi, log>>
         ELSE IF id \notin DOMAIN FkDef[fk]
           THEN /\ Raise
                /\ loaded' = Append(loaded, fk)
                /\ log' = Append(log, Ev("furnsh", fk, "", <<>>, 0))
                /\ UNCHANGED <<dt, fi>>
         ELSE /\ loaded' = Unload(Append(loaded, fk), fk)
              /\ log' = log \o <<Ev("furnsh", fk, "", <<>>, 0),
                                  Ev("unload", fk, "", <<>>, 0)>>
              /\ dt' = DictSet(dt, fk,
                         DictSet(DictGet(dt, fk), reffrm,
                           [relative_reffrm |-> FkDef[fk][id].relative,
                            et_test_lo |-> ets[1], et_test_hi |-> ets[2],
                            dtquat |-> <<>>]))
              /\ fi' = fi + 1
              /\ UNCHANGED <<pc, result>>
  /\ UNCHANGED <<cfg, argv, run, disk, ckAtEntry, handleOpen, mainVars, fks,
                 stop_ets, last_et, ck_handle, fk, stop_et, frameVars,
                 results, ti, tj>>

\* line 231: the window is done: keep its stop ET for the next one
t_end_window ==
  /\ pc = "t_for"
  /\ fi > Len(cfg.frames)
  /\ last_et' = <<stop_et>>
  /\ pc' = "t_while"
  /\ UNCHANGED <<cfg, argv, testVars, run, result, disk, ckAtEntry, loaded,
                 handleOpen, mainVars, fks, stop_ets, fk, stop_et, fi,
                 ck_handle, frameVars, log>>

\* lines 233-238: clear the kernel store, check that it is empty, load the
\* kernels and the output CK again
t_reload ==
  /\ pc = "t_while"
  /\ fks = <<>>
  /\ loaded' = TestKernels(cfg.kernels, OutputCk)
  /\ log' = log \o <<Ev("kclear", "", "", <<>>, 0)>>
                \o [i \in 1..Len(TestKernels(cfg.kernels, OutputCk)) |->
                      Ev("furnsh", TestKernels(cfg.kernels, OutputCk)[i],
                         "", <<>>, 0)]
  /\ ti' = 1
  /\ pc' = IF AllQueries(dt) = <<>> THEN "t_fk" ELSE "t_pass1"
  /\ UNCHANGED <<cfg, argv, run, result, disk, ckAtEntry, handleOpen,
                 mainVars, loopVars, ck_handle, frameVars, dt, results, tj>>

\* lines 241-251: pass 1, one query: the orientation through the CK, kept
\* in dtquat under its ET
t_pxform_ck ==
  /\ pc = "t_pass1"
  /\ LET q == AllQueries(dt)[ti]
         old == DictGet(DictGet(dt, q.fk), q.reffrm)
     IN  \E chain \in BOOLEAN :
           IF /\ CkPxformOk(loaded, ckSegs, q.reffrm, q.et)
              /\ \/ chain
                 \/ CkSegment(ckSegs, PoolFrameId[q.reffrm], q.et).ref
                       = q.relative_reffrm
             THEN /\ dt' = DictSet(dt, q.fk,
                             DictSet(DictGet(dt, q.fk), q.reffrm,
                               [old EXCEPT !.dtquat =
                                  DictSet(@, q.et,
                                    M2q(CkPxform(ckSegs, q.relative_reffrm,
                                                 q.reffrm, q.et)))]))
                  /\ log' = Append(log, Ev("pxform_ck", q.fk, q.reffrm,
                                           <<q.et>>, 0))
                  /\ IF ti = Len(AllQueries(dt))
                       THEN ti' = 1 /\ pc' = "t_fk"
                       ELSE ti' = ti + 1 /\ pc' = pc
                  /\ UNCHANGED result
             ELSE Raise /\ UNCHANGED <<dt, log, ti>>
  /\ UNCHANGED <<cfg, argv, run, disk, ckAtEntry, loaded, handleOpen,
                 mainVars, loopVars, ck_handle, frameVars, results, tj>>

\* lines 254-261: pass 2, the next FK: clear the kernel store, check that
\* it is empty, load the FK alone
t_load_fk ==
  /\ pc = "t_fk"
  /\ ti <= Len(dt)
  /\ loaded' = <<dt[ti].key>>
  /\ log' = log \o <<Ev("kclear", "", "", <<>>, 0),
                      Ev("furnsh", dt[ti].key, "", <<>>, 0)>>
  /\ IF dt[ti].val = <<>>
       THEN ti' = ti + 1 /\ UNCHANGED <<pc, tj>>
       ELSE tj' = 1 /\ pc' = "t_pass2" /\ UNCHANGED ti
  /\ UNCHANGED <<cfg, argv, run, result, disk, ckAtEntry, handleOpen,
                 mainVars, loopVars, ck_handle, frameVars, dt, results>>

\* lines 264-280: pass 2, one query: the orientation from the FK alone, and
\* the error printed
t_pxform_fk ==
  /\ pc = "t_pass2"
  /\ LET qs == QueriesOf(dt[ti].key, dt[ti].val)
         q == qs[tj]
         ck_quat == DictGet(DictGet(dt[ti].val, q.reffrm).dtquat, q.et)
     IN  /\ results' = Append(results,
               [fk |-> q.fk,
                quat_error |->
                  QuatError(ck_quat, M2q(FkPxform(q.fk, q.reffrm))),
                relative_reffrm |-> q.relative_reffrm,
                reffrm |-> q.reffrm,
                et |-> FormatEt(q.et)])
         /\ log' = Append(log, Ev("pxform_fk", q.fk, q.reffrm, <<q.et>>, 0))
         /\ IF tj = Len(qs)
              THEN ti' = ti + 1 /\ pc' = "t_fk" /\ UNCHANGED tj
              ELSE tj' = tj + 1 /\ UNCHANGED <<pc, ti>>
  /\ UNCHANGED <<cfg, argv, run, result, disk, ckAtEntry, loaded, handleOpen,
                 mainVars, loopVars, ck_handle, frameVars, dt>>

\* line 280: every FK of dt is done: test_ck returns
t_return ==
  /\ pc = "t_fk"
  /\ ti > Len(dt)
  /\ pc' = "exit"
  /\ result' = "ok"
  /\ UNCHANGED <<cfg, argv, testVars, run, disk, ckAtEntry, loaded,
                 handleOpen, mainVars, loopVars, ck_handle, frameVars, log>>

(***************************************************************************)
(* The script is run again, in a new process, on the same configuration    *)
(* and the file system the previous run left.                              *)
(***************************************************************************)
run_again ==
  /\ pc = "exit"
  /\ run < MaxRuns
  /\ run' = run + 1
  /\ pc' = "start"
  /\ result' = "none"
  /\ ckAtEntry' = <<FALSE, <<>>>>
  /\ loaded' = <<>>
  /\ handleOpen' = FALSE
  /\ main_fks' = <<>>
  /\ main_stop_ets' = <<>>
  /\ fks' = <<>>
  /\ stop_ets' = <<>>
  /\ last_et' = <<>>
  /\ ck_handle' = "None"
  /\ fk' = ""
  /\ stop_et' = 0
  /\ fi' = 0
  /\ frameVars' = NoFrameVars
  /\ log' = <<>>
  /\ UNCHANGED <<cfg, argv, testVars, disk>>

Next ==
  \/ main
  \/ main_create
  \/ call_create_ck
  \/ create_ck
  \/ while_fks
  \/ for_reffrm
  \/ furnsh_fk
  \/ read_fk
  \/ unload_fk
  \/ set_endtim
  \/ ckopn
  \/ ckw02
  \/ end_window
  \/ ckcls
  \/ main_test
  \/ run_again

Spec == Init /\ [][Next]_vars

(***************************************************************************)
(* The script run once with any of --create and --test, the output path    *)
(* free or holding a CK.                                                   *)
(***************************************************************************)
\* a third epoch inside the clock's range, more than 3 * 10 s after its
\* start and less than 1e6 s (HiOffset) before its end
T3 == 32

TestStopTimes == {-31, T1, T2, T3}

ConfigsTest ==
  {c \in [entry : {"main"}, kernels : KernelLists, frames : FrameLists,
          fks : SeqsUpTo(HistFiles, MaxWin),
          stops : SeqsUpTo(TestStopTimes, MaxWin)] :
     c.kernels = <<"missing.tm">> =>
        c.frames = <<>> /\ c.fks = <<>> /\ c.stops = <<>>}

InitTest ==
  /\ cfg \in ConfigsTest
  /\ run = 1
  /\ pc = "start"
  /\ result = "none"
  /\ ckExists \in BOOLEAN
  /\ ckSegs \in IF ckExists THEN {ForeignCk, EarlierCk} ELSE {<<>>}
  /\ ckAtEntry = <<FALSE, <<>>>>
  /\ loaded = <<>>
  /\ handleOpen = FALSE
  /\ main_fks = <<>>
  /\ main_stop_ets = <<>>
  /\ fks = <<>>
  /\ stop_ets = <<>>
  /\ last_et = <<>>
  /\ ck_handle = "None"
  /\ fk = ""
  /\ stop_et = 0
  /\ fi = 0
  /\ frameVars = NoFrameVars
  /\ log = <<>>
  /\ argv \in [create : BOOLEAN, test : BOOLEAN]
  /\ dt = <<>>
  /\ results = <<>>
  /\ ti = 0
  /\ tj = 0

NextTest ==
  \/ main
  \/ main_create
  \/ create_ck
  \/ while_fks
  \/ for_reffrm
  \/ furnsh_fk
  \/ read_fk
  \/ unload_fk
  \/ set_endtim
  \/ ckopn
  \/ ckw02
  \/ end_window
  \/ ckcls
  \/ main_test
  \/ test_ck
  \/ t_while_fks
  \/ t_for_reffrm
  \/ t_end_window
  \/ t_reload
  \/ t_pxform_ck
  \/ t_load_fk
  \/ t_pxform_fk
  \/ t_return

SpecTest == InitTest /\ [][NextTest]_vars


(***************************************************************************)
(* What the properties below speak about.                                  *)
(***************************************************************************)
\* positions of the calls of one kind in the log
LogAt(op) == {i \in 1..Len(log) : log[i].op = op}

\* the windows popped so far, in the order they were popped
Pops == SelectSeq(log, LAMBDA e : e.op = "pop")

\* number of windows popped before position j of the log
PopsBefore(j) == Cardinality({i \in LogAt("pop") : i < j})

\* create_ck has been entered in this run
Entered == LogAt("create_ck") # {}

\* number of windows of the schedule
NWin == Len(cfg.fks)

\* the i-th window in processing order: main hands create_ck the reversed
\* lists, and create_ck pops from the end
WinFk(i) ==
  IF cfg.entry = "main" THEN cfg.fks[i] ELSE cfg.fks[Len(cfg.fks) + 1 - i]

WinStop(i) ==
  IF cfg.entry = "main" THEN cfg.stops[i]
  ELSE cfg.stops[Len(cfg.stops) + 1 - i]

\* the tick of an ET on the clock of the SCLK kernel
TickOf(et) == (et - Clock.startET) * Clock.ticksPerSec

\* the last declared partition end of that clock
LastPartitionEnd == Clock.partitionEnd[2]

\* the positions of the kernel store that hold a historical FK
HistLoaded(ld) == {i \in 1..Len(ld) : ld[i] \in HistFiles}

\* create_ck was given nothing to write
NothingToWrite == cfg.frames = <<>> \/ cfg.fks = <<>>

\* every kernel of the kernel list can be loaded
KernelsLoad == \A i \in 1..Len(cfg.kernels) : cfg.kernels[i] # "missing.tm"

\* this run has not opened, written or closed a CK, has left the file
\* system as create_ck found it and has loaded no historical FK
NoOutputActivity ==
  /\ LogAt("ckopn") = {} /\ LogAt("ckcls") = {} /\ LogAt("ckw02") = {}
  /\ ~handleOpen
  /\ <<ckExists, ckSegs>> = ckAtEntry
  /\ \A i \in LogAt("furnsh") : log[i].file \notin HistFiles

\* the stop ticks computed so far, in order
Endtims == SelectSeq(log, LAMBDA e : e.op = "endtim")

\* the scenario of C7 as the spec declares it, newest FK first
C7_NewestFirst ==
  /\ cfg.entry = "main"
  /\ cfg.frames = <<"A", "B">>
  /\ cfg.fks = <<"old2.tf", "old1.tf">>
  /\ cfg.stops = <<-31, T1>>

\* the scenario of C7 declared oldest FK first
C7_OldestFirst ==
  /\ cfg.entry = "main"
  /\ cfg.frames = <<"A", "B">>
  /\ cfg.fks = <<"old1.tf", "old2.tf">>
  /\ cfg.stops = <<T1, -31>>

\* the windows C7 expects: old1.tf over [0, T1], old2.tf over [T1, end of
\* the clock], ticks per frame not decreasing, four segments on return
WindowsAsExpected ==
  /\ \A k \in 1..Len(ckSegs) :
        /\ ckSegs[k].segid[1] = "old1.tf" =>
              ckSegs[k].begtim = 0 /\ ckSegs[k].endtim = TickOf(T1)
        /\ ckSegs[k].segid[1] = "old2.tf" =>
              /\ ckSegs[k].begtim = TickOf(T1)
              /\ ckSegs[k].endtim = LastPartitionEnd
  /\ \A k \in 1..Len(ckSegs) : \A m \in 1..Len(ckSegs) :
        (k < m /\ ckSegs[k].inst = ckSegs[m].inst) =>
           /\ ckSegs[k].begtim <= ckSegs[m].begtim
           /\ ckSegs[k].endtim <= ckSegs[m].endtim
  /\ result = "ok" => Len(ckSegs) = 4

\* stop times strictly ascending in processing order, the sentinel at most
\* on the last window
AscendingSchedule ==
  /\ cfg.fks # <<>> /\ Len(cfg.fks) = Len(cfg.stops)
  /\ \A i \in 1..(NWin - 1) : WinStop(i) >= OpenEndedThreshold
  /\ \A i \in 1..NWin : \A j \in 1..NWin :
        (i < j /\ WinStop(j) >= OpenEndedThreshold) => WinStop(i) < WinStop(j)

\* a schedule of as many stop times as historical FKs, and at least one
EqualNonEmpty == cfg.fks # <<>> /\ Len(cfg.fks) = Len(cfg.stops)

(***************************************************************************)
(* C1.  Given equal-length, non-empty lists, a create_ck that returns has  *)
(* popped exactly len(fks) windows, the i-th being the i-th historical FK  *)
(* with its stop time, and has computed one start tick per window and      *)
(* target frame; every start tick computed in the first window is 0 with   *)
(* no conversion, and every start tick computed in a later window is the   *)
(* tick of the stop time of the window popped just before (last_et).       *)
(***************************************************************************)
C1_WindowLoop ==
  /\ (result = "ok" /\ Entered /\ EqualNonEmpty) =>
        /\ Len(Pops) = NWin
        /\ \A i \in 1..NWin :
              Pops[i].file = WinFk(i) /\ Pops[i].et = <<WinStop(i)>>
        /\ Cardinality(LogAt("begtim")) = NWin * Len(cfg.frames)
  /\ \A j \in LogAt("begtim") :
        LET w == PopsBefore(j)
        IN  /\ w >= 1
            /\ log[j].file = Pops[w].file
            /\ IF w = 1
                 THEN log[j].et = <<>> /\ log[j].tick = 0
                 ELSE /\ log[j].et = Pops[w - 1].et
                      /\ log[j].tick = TickOf(Pops[w - 1].et[1])

C1_Witness ==
  /\ result = "ok"
  /\ EqualNonEmpty
  /\ Len(Pops) = 2
  /\ Len(cfg.frames) = 2
  /\ \E j \in LogAt("begtim") : log[j].et = <<T1>> /\ log[j].tick = 300

(***************************************************************************)
(* C2.  When create_ck is entered with a file at the output path, it       *)
(* raises at once: it never opens, writes or closes a CK, and the file is  *)
(* what it was; this holds for a file another program left there and for   *)
(* the CK an earlier run wrote segments to.                                *)
(***************************************************************************)
C2_NoOverwrite ==
  (Entered /\ ckAtEntry[1]) =>
     /\ pc = "exit"
     /\ result = "error"
     /\ LogAt("ckopn") = {} /\ LogAt("ckw02") = {} /\ LogAt("ckcls") = {}
     /\ ~handleOpen
     /\ <<ckExists, ckSegs>> = ckAtEntry

C2_Witness ==
  /\ run = 2
  /\ Entered
  /\ ckAtEntry[1]
  /\ Len(ckAtEntry[2]) >= 2
  /\ ckAtEntry[2][1].segid[1] \in HistFiles
  /\ result = "error"

(***************************************************************************)
(* C3.  create_ck never ends, by return or by exception, with the output   *)
(* CK handle open.                                                         *)
(***************************************************************************)
C3_ClosedOnEveryExit == pc = "exit" => ~handleOpen


(***************************************************************************)
(* C4.  In a create_ck that returns having written at least one segment,   *)
(* the CK is opened exactly once, by the call just before the first        *)
(* segment write; every segment write comes after that open and before the *)
(* close; and the CK is closed exactly once, by the last call, after which *)
(* the handle is closed.                                                   *)
(***************************************************************************)
C4_OpenOnceCloseOnce ==
  /\ (result = "ok" /\ LogAt("ckw02") # {}) =>
        /\ Cardinality(LogAt("ckopn")) = 1
        /\ Cardinality(LogAt("ckcls")) = 1
        /\ \A o \in LogAt("ckopn") :
              /\ o + 1 \in LogAt("ckw02")
              /\ \A w \in LogAt("ckw02") : o < w
        /\ \A c \in LogAt("ckcls") :
              /\ c = Len(log)
              /\ \A w \in LogAt("ckw02") : w < c
        /\ ~handleOpen
  /\ pc = "ckw02" => handleOpen
  /\ \A w \in LogAt("ckw02") :
        \E o \in LogAt("ckopn") : o < w /\ \A c \in LogAt("ckcls") : w < c

C4_Witness ==
  /\ result = "ok"
  /\ Cardinality(LogAt("ckw02")) = 4
  /\ Cardinality(LogAt("ckopn")) = 1
  /\ log[Len(log)].op = "ckcls"


(***************************************************************************)
(* C5, as stated.  A create_ck that ends having been given no target       *)
(* frames, or no windows, has not opened or closed the CK, has not touched *)
(* the file system, has loaded no historical FK, and has returned (stated  *)
(* for kernel lists that load and schedules of equal length).              *)
(***************************************************************************)
C5_AsStated ==
  (pc = "exit" /\ Entered /\ NothingToWrite /\ KernelsLoad
     /\ Len(cfg.fks) = Len(cfg.stops)) =>
     NoOutputActivity /\ result = "ok"

(***************************************************************************)
(* C5, amended.  A create_ck given no target frames, or no windows, never  *)
(* opens or closes the CK, leaves the file system as it found it and loads *)
(* no historical FK; it returns, unless a kernel of its kernel list cannot *)
(* be loaded, a file exists at the output path, or it is given fewer stop  *)
(* times than historical FKs: then it raises.                              *)
(***************************************************************************)
C5_NoOpWhenNothingToWrite ==
  (Entered /\ NothingToWrite) =>
     /\ NoOutputActivity
     /\ pc = "exit" =>
          (result = "ok" <=>
             /\ KernelsLoad
             /\ ~ckAtEntry[1]
             /\ Len(cfg.stops) >= Len(cfg.fks))

C5_Witness ==
  /\ pc = "exit"
  /\ result = "ok"
  /\ cfg.frames = <<>>
  /\ Len(Pops) = 2
  /\ ~ckExists

C5_WitnessNoWindows ==
  /\ pc = "exit"
  /\ result = "ok"
  /\ cfg.frames = <<"A", "B">>
  /\ cfg.fks = <<>>
  /\ Entered
  /\ ~ckExists


(***************************************************************************)
(* C6.  A create_ck that returns has written exactly one segment per       *)
(* (window, target frame) pair, len(fks) * len(frames) in all, window by   *)
(* window in processing order and, within a window, frame by frame in the  *)
(* order of frames_to_convert; the segment of window w and frame f is      *)
(* labelled with the window's historical FK and f, and carries the frame   *)
(* id of f and the relative frame that FK declares for f.                  *)
(***************************************************************************)
C6_OneSegmentPerPair ==
  (result = "ok" /\ Entered /\ Len(cfg.stops) >= NWin) =>
     LET nf == Len(cfg.frames)
     IN  /\ Len(ckSegs) = NWin * nf
         /\ \A w \in 1..NWin : \A f \in 1..nf :
               LET seg == ckSegs[(w - 1) * nf + f]
                   id == CASE cfg.frames[f] = "A" -> -1
                           [] cfg.frames[f] = "B" -> -2
                           [] cfg.frames[f] = "C" -> -3
                           [] OTHER -> 0
               IN  /\ seg.segid = <<WinFk(w), cfg.frames[f]>>
                   /\ seg.inst = id
                   /\ seg.ref = FkDef[WinFk(w)][id].relative

C6_Witness ==
  /\ result = "ok"
  /\ cfg.frames = <<"A", "B">>
  /\ NWin = 2
  /\ Len(ckSegs) = 4
  /\ ckSegs[2].ref = "DECK"
  /\ ckSegs[4].ref = "SC"

C8_StopTick ==
  /\ \A j \in LogAt("endtim") :
        LET stop == log[j].et[1]
        IN  /\ log[j].et = Pops[PopsBefore(j)].et
            /\ IF stop < OpenEndedThreshold
                 THEN /\ log[j].tick = LastPartitionEnd
                      /\ log[j - 1].op # "sce2t"
                 ELSE /\ log[j].tick = TickOf(stop)
                      /\ log[j - 1].op = "sce2t"
                      /\ log[j - 1].et = <<stop>>
  /\ LogAt("ckopn") # {} =>
        /\ Len(ckSegs) <= Len(Endtims)
        /\ \A k \in 1..Len(ckSegs) : ckSegs[k].endtim = Endtims[k].tick

C8_Witness ==
  /\ Len(ckSegs) = 2
  /\ LogAt("ckopn") # {}
  /\ Len(Endtims) = 2
  /\ Endtims[1].et = <<T2>> /\ ckSegs[1].endtim = 900
  /\ Endtims[2].et = <<-40>> /\ ckSegs[2].endtim = 4000

C8_WitnessNearSentinel ==
  /\ Len(ckSegs) = 1
  /\ LogAt("ckopn") # {}
  /\ Endtims[1].et = <<-31>> /\ ckSegs[1].endtim = 4000

(***************************************************************************)
(* C9.  When the stop times are strictly ascending in processing order and *)
(* only the last may be the sentinel, the segments written for a frame are *)
(* contiguous and ordered: the first starts at tick 0, every later one     *)
(* starts at the stop tick of the frame's segment of the previous window,  *)
(* no segment stops before it starts, and start and stop ticks do not      *)
(* decrease from one window to the next.                                   *)
(***************************************************************************)
C9_Contiguous ==
  (AscendingSchedule /\ LogAt("ckopn") # {}) =>
     LET nf == Len(cfg.frames)
     IN  \A k \in 1..Len(ckSegs) :
            /\ ckSegs[k].begtim <= ckSegs[k].endtim
            /\ k <= nf => ckSegs[k].begtim = 0
            /\ k > nf =>
                 /\ ckSegs[k].inst = ckSegs[k - nf].inst
                 /\ ckSegs[k].begtim = ckSegs[k - nf].endtim
                 /\ ckSegs[k - nf].begtim <= ckSegs[k].begtim
                 /\ ckSegs[k - nf].endtim <= ckSegs[k].endtim

C9_Witness ==
  /\ AscendingSchedule
  /\ result = "ok"
  /\ cfg.frames = <<"A", "B">>
  /\ Len(ckSegs) = 4
  /\ ckSegs[1].endtim = 900 /\ ckSegs[3].begtim = 900
  /\ ckSegs[3].endtim = 4000

(***************************************************************************)
(* C10.  At most one historical FK is loaded at any time; the one loaded   *)
(* is the window's FK, and only while its relative frame and rotation are  *)
(* read and until it is unloaded: none is loaded when a window is popped,  *)
(* when a (window, frame) pass begins and its start tick is computed, when *)
(* the stop tick is computed, or when the CK is opened or written.         *)
(***************************************************************************)
C10_HistoricalFkLoadedOnlyToRead ==
  /\ Cardinality(HistLoaded(loaded)) <= 1
  /\ \A i \in HistLoaded(loaded) : loaded[i] = fk
  /\ pc \in {"read_fk", "unload_fk"} => Cardinality(HistLoaded(loaded)) = 1
  /\ pc \in {"create_ck", "while", "for", "furnsh_fk", "endtim", "ckopn",
             "ckw02"} => HistLoaded(loaded) = {}

C10_Witness ==
  /\ pc = "ckw02"
  /\ Len(Pops) = 2
  /\ Pops[1].file = "old1.tf" /\ Pops[2].file = "old2.tf"
  /\ fi = 2
  /\ Cardinality(LogAt("unload")) = 4
  /\ loaded = <<"base.tm">>


(***************************************************************************)
(* What the properties of test_ck speak about.                             *)
(***************************************************************************)
\* test_ck has been entered in this run
TestEntered == LogAt("test_ck") # {}

\* the windows test_ck has popped so far, in the order they were popped
TPops == SelectSeq(log, LAMBDA e : e.op = "t_pop")

\* the results printed for one window's FK and one frame
ResultsOf(f, frm) ==
  SelectSeq(results, LAMBDA r : r.fk = f /\ r.reffrm = frm)

\* the start ET of the i-th window in processing order: the start of the
\* clock for the first, the stop ET of the window before for the others
WinStart(i) == IF i = 1 THEN Clock.startET ELSE WinStop(i - 1)

\* both flags are given
CreateAndTest == argv.create /\ argv.test

(***************************************************************************)
(* C11.  Whenever test_ck is about to make a pass-1 query, the kernel      *)
(* store holds exactly the base kernels and the output CK, and no          *)
(* historical FK; whenever it is about to make a pass-2 query, the kernel  *)
(* store holds exactly one kernel, the historical FK the query is about;   *)
(* every pass-2 query comes after every pass-1 query, with a kclear in     *)
(* between, and pass 2 is entered only when all pass-1 queries are done.   *)
(***************************************************************************)
C11_TwoPassIsolation ==
  /\ pc = "t_pass1" =>
        /\ loaded = cfg.kernels \o <<OutputCk>>
        /\ HistLoaded(loaded) = {}
  /\ pc = "t_pass2" =>
        /\ Len(loaded) = 1
        /\ loaded[1] \in HistFiles
        /\ loaded[1] = QueriesOf(dt[ti].key, dt[ti].val)[tj].fk
  /\ pc \in {"t_fk", "t_pass2"} =>
        Cardinality(LogAt("pxform_ck")) = Len(AllQueries(dt))
  /\ \A i \in LogAt("pxform_fk") :
        /\ \E c \in LogAt("kclear") :
              /\ c < i
              /\ \A j \in LogAt("pxform_ck") : j < c
        /\ LET f == CHOOSE k \in LogAt("furnsh") :
                      k < i /\ \A m \in LogAt("furnsh") : m < i => m <= k
           IN  /\ log[f].file = log[i].file
               /\ log[f - 1].op = "kclear"
               /\ \A m \in (f + 1)..(i - 1) : log[m].op = "pxform_fk"

C11_Witness ==
  /\ pc = "t_pass2"
  /\ Len(dt) = 2
  /\ ti = 2
  /\ tj = 3
  /\ loaded = <<"old2.tf">>
  /\ Cardinality(LogAt("pxform_ck")) = 8
  /\ Cardinality(LogAt("pxform_fk")) = 6

(***************************************************************************)
(* C12.  A test_ck that returns has printed exactly two results per        *)
(* (window, frame) pair, 2 * len(windows) * len(frames) in all: for the    *)
(* w-th window and the f-th frame one for the low and one for the high     *)
(* sample ET of that window, each labelled with the window's historical    *)
(* FK, the frame and its ET; every pass-2 query prints a result, whether   *)
(* its error is zero or not.                                               *)
(***************************************************************************)
C12_TwoResultsPerWindowAndFrame ==
  /\ Len(results) = Cardinality(LogAt("pxform_fk"))
  /\ (TestEntered /\ pc = "exit" /\ result = "ok") =>
        LET nf == Len(cfg.frames)
        IN  /\ Len(results) = 2 * NWin * nf
            /\ \A w \in 1..NWin : \A f \in 1..nf : \A k \in 1..2 :
                  LET r == results[2 * ((w - 1) * nf + (f - 1)) + k]
                  IN  /\ r.fk = WinFk(w)
                      /\ r.reffrm = cfg.frames[f]
                      /\ r.et = FormatEt(EtTest(WinStart(w), WinStop(w))[k])

(***************************************************************************)
(* C13.  The two sample ETs test_ck has just computed for a window lie     *)
(* strictly inside the window.  For a window that is not open-ended and    *)
(* stops after it starts they are start + delta and stop - delta with      *)
(* delta = min(10, (stop - start)/3), and start < start + delta <          *)
(* stop - delta < stop.  For the open-ended window they are start + 10 and *)
(* start + 1e6, both after the start of the window and before its end, the *)
(* last partition end of the clock.  (ETs in thirds of a second.)          *)
(***************************************************************************)
C13_SamplesInsideWindow ==
  (pc = "t_for" /\ fi > 1) =>
     LET e == DictGet(DictGet(dt, fk), cfg.frames[fi - 1])
         start == IF last_et = <<>> THEN Clock.startET ELSE last_et[1]
         delta == IF 3 * 10 < stop_et - start THEN 3 * 10
                  ELSE stop_et - start
     IN  /\ (stop_et >= OpenEndedThreshold /\ stop_et > start) =>
               /\ e.et_test_lo = 3 * start + delta
               /\ e.et_test_hi = 3 * stop_et - delta
               /\ 3 * start < e.et_test_lo
               /\ e.et_test_lo < e.et_test_hi
               /\ e.et_test_hi < 3 * stop_et
         /\ stop_et < OpenEndedThreshold =>
               /\ e.et_test_lo = 3 * (start + 10)
               /\ e.et_test_hi = 3 * (start + HiOffset)
               /\ 3 * start < e.et_test_lo
               /\ e.et_test_lo < e.et_test_hi
               /\ Tick3(e.et_test_hi) < 3 * LastPartitionEnd

(***************************************************************************)
(* C14.  When main reads a list of historical FKs and a list of stop times *)
(* that differ in length, or of which one is empty, the run raises before  *)
(* create_ck or test_ck is entered: no CK is opened, written or closed, no *)
(* window is popped, no query is made and no result is printed.            *)
(***************************************************************************)
C14_AbortBeforeEntry ==
  (\/ Len(cfg.fks) # Len(cfg.stops)
   \/ cfg.fks = <<>>
   \/ cfg.stops = <<>>) =>
     /\ pc \in {"start", "exit"}
     /\ pc = "exit" => result = "error"
     /\ ~Entered /\ ~TestEntered
     /\ \A i \in 1..Len(log) : log[i].op \in {"furnsh", "kclear"}
     /\ ~handleOpen
     /\ dt = <<>> /\ results = <<>>
     /\ fks = <<>> /\ stop_ets = <<>>

C14_Witness ==
  /\ pc = "exit"
  /\ result = "error"
  /\ CreateAndTest
  /\ cfg.frames = <<"A", "B">>
  /\ Len(cfg.fks) = 2
  /\ Len(cfg.stops) = 1
  /\ loaded = <<"base.tm">>

(***************************************************************************)
(* C15.  In a run with --create and --test, where test_ck checks the CK    *)
(* that create_ck has just built from the same historical FKs, stop times  *)
(* and frames: every quaternion pass 1 has looked up through the CK is the *)
(* quaternion of the fixed rotation the window's historical FK defines for *)
(* the frame, the segment read at the sample being one create_ck wrote     *)
(* from that FK for that frame and relative frame, and every error printed *)
(* is 0.                                                                   *)
(***************************************************************************)
C15_ZeroError ==
  (CreateAndTest /\ TestEntered) =>
     /\ \A i \in 1..Len(dt) : \A j \in 1..Len(dt[i].val) :
           LET e == dt[i].val[j]
               id == PoolFrameId[e.key]
           IN  \A k \in 1..Len(e.val.dtquat) :
                 LET seg == CkSegment(ckSegs, id, e.val.dtquat[k].key)
                 IN  /\ e.val.dtquat[k].val =
                          <<"quat", FkDef[dt[i].key][id].mtx>>
                     /\ seg.segid = <<dt[i].key, e.key>>
                     /\ seg.ref = e.val.relative_reffrm
                     /\ seg.ref = FkDef[dt[i].key][id].relative
     /\ \A i \in 1..Len(results) : results[i].quat_error = 0

C15_Witness ==
  /\ CreateAndTest
  /\ pc = "exit"
  /\ result = "ok"
  /\ cfg.frames = <<"A", "B">>
  /\ cfg.fks = <<"old1.tf", "old2.tf">>
  /\ Len(ckSegs) = 4
  /\ Len(results) = 8
  /\ results[7].relative_reffrm = "DECK"
  /\ \A i \in 1..8 : results[i].quat_error = 0

(***************************************************************************)
(* C16.  In a run with --create and --test, test_ck is entered only after  *)
(* create_ck has popped every window and returned with the CK closed, and  *)
(* it is entered whenever create_ck returns; main's two lists stay the     *)
(* reversed lists it read while create_ck and test_ck pop their copies;    *)
(* test_ck is handed the whole schedule and pops the same (FK, stop time)  *)
(* pairs as create_ck, in the same order.                                  *)
(***************************************************************************)
C16_CreateThenTestOnSameSchedule ==
  CreateAndTest =>
     /\ pc \notin {"start", "exit"} =>
           /\ main_fks = Reverse(cfg.fks)
           /\ main_stop_ets = Reverse(cfg.stops)
     /\ (pc = "exit" /\ result = "ok") => TestEntered
     /\ pc = "test_ck" => fks = main_fks /\ stop_ets = main_stop_ets
     /\ TestEntered =>
           /\ Entered
           /\ Len(Pops) = NWin
           /\ ~handleOpen
           /\ \A i \in 1..Len(log) :
                 log[i].op \in {"create_ck", "pop", "sce2t", "begtim",
                                "endtim", "ckopn", "ckw02", "ckcls"} =>
                    \A j \in LogAt("test_ck") : i < j
           /\ Len(TPops) + Len(fks) = NWin
           /\ \A i \in 1..Len(fks) : fks[i] = main_fks[i]
           /\ \A i \in 1..Len(stop_ets) : stop_ets[i] = main_stop_ets[i]
           /\ \A i \in 1..Len(TPops) :
                 /\ TPops[i].file = Pops[i].file
                 /\ TPops[i].et = Pops[i].et
                 /\ TPops[i].file = cfg.fks[i]
                 /\ TPops[i].et = <<cfg.stops[i]>>

C16_Witness ==
  /\ CreateAndTest
  /\ pc = "exit"
  /\ result = "ok"
  /\ Len(Pops) = 2
  /\ Len(TPops) = 2
  /\ TPops[1].file = "old1.tf" /\ TPops[2].file = "old2.tf"
  /\ main_fks = <<"old2.tf", "old1.tf">>
  /\ fks = <<>>

(***************************************************************************)
(* C17.  In a run of create_ck on a schedule main has accepted, no stop ET *)
(* below the open-ended threshold is ever handed to sp.sce2t, neither as   *)
(* the stop of a window nor, kept in last_et, as the start of the next.    *)
(***************************************************************************)
C17_SentinelNeverConverted ==
  cfg.entry = "main" =>
     \A j \in LogAt("sce2t") : log[j].et[1] >= OpenEndedThreshold

====
